---- MODULE Spec2Model ----
(***************************************************************************)
(* Model of the ingestion and query pipeline of src/test.py (the           *)
(* "Intelligent RAG API"): the process-wide registry pdf_data_stores, the  *)
(* handler analyze_pdfs_endpoint with PDFAnalyzer.process_pdf, and the     *)
(* handler chat_with_pdfs with process_chunk.                              *)
(*                                                                         *)
(* Strings the code inspects character by character (file names, text      *)
(* lines, section titles) are sequences of one-character strings.  Scores  *)
(* are integers in hundredths: the float 0.4 is 40, 1.0 is 100.            *)
(* The external collaborators (page loader, embedder / vector index, the   *)
(* language model) are nondeterministic choices over small outcome sets.   *)
(***************************************************************************)
EXTENDS Integers, Sequences, FiniteSets, TLC

(***************************************************************************)
(* Characters and the str methods the code calls                           *)
(***************************************************************************)
UpperChars == <<"A","B","C","D","E","F","G","H","I","J","K","L","M",
                "N","O","P","Q","R","S","T","U","V","W","X","Y","Z">>
LowerChars == <<"a","b","c","d","e","f","g","h","i","j","k","l","m",
                "n","o","p","q","r","s","t","u","v","w","x","y","z">>
Whitespace == {" ", "\t", "\n"}

UpperSet == {UpperChars[i] : i \in DOMAIN UpperChars}
LowerSet == {LowerChars[i] : i \in DOMAIN LowerChars}
ToLower ==
    [c \in UpperSet |->
        LowerChars[CHOOSE i \in DOMAIN UpperChars : UpperChars[i] = c]]

IsUpperChar(c) == c \in UpperSet
IsLowerChar(c) == c \in LowerSet
IsCased(c) == IsUpperChar(c) \/ IsLowerChar(c)

LowerChar(c) == IF IsUpperChar(c) THEN ToLower[c] ELSE c

\* str.lower()
Lower(s) == [i \in DOMAIN s |-> LowerChar(s[i])]

\* str.strip(): drop leading and trailing whitespace
Strip(s) ==
    LET keep == {i \in DOMAIN s : s[i] \notin Whitespace}
    IN  IF keep = {} THEN <<>>
        ELSE LET lo == CHOOSE i \in keep : \A j \in keep : i <= j
                 hi == CHOOSE i \in keep : \A j \in keep : j <= i
             IN  SubSeq(s, lo, hi)

\* str.endswith(suffix)
EndsWith(s, suffix) ==
    /\ Len(suffix) <= Len(s)
    /\ SubSeq(s, Len(s) - Len(suffix) + 1, Len(s)) = suffix

\* str.isupper(): at least one cased character and no lower-case one
IsUpperStr(s) ==
    /\ \E i \in DOMAIN s : IsCased(s[i])
    /\ \A i \in DOMAIN s : ~IsLowerChar(s[i])

\* str.istitle(): at least one cased character, upper-case characters only
\* after uncased ones and lower-case characters only after cased ones
IsTitleStr(s) ==
    /\ \E i \in DOMAIN s : IsCased(s[i])
    /\ \A i \in DOMAIN s :
          LET prevCased == i > 1 /\ IsCased(s[i - 1])
          IN  /\ IsUpperChar(s[i]) => ~prevCased
              /\ IsLowerChar(s[i]) => prevCased

PdfSuffix == <<".","p","d","f">>

\* STOP_TITLES
STOP_TITLES ==
    { <<"i","n","t","r","o","d","u","c","t","i","o","n">>,
      <<"c","o","n","c","l","u","s","i","o","n">>,
      <<"s","u","m","m","a","r","y">>,
      <<"a","b","s","t","r","a","c","t">>,
      <<"t","a","b","l","e"," ","o","f"," ","c","o","n","t","e","n","t","s">>,
      <<"p","r","e","f","a","c","e">>,
      <<"r","e","f","e","r","e","n","c","e","s">>,
      <<"b","i","b","l","i","o","g","r","a","p","h","y">> }

(***************************************************************************)
(* Optional values: None is the empty sequence, a value x is <<x>>         *)
(***************************************************************************)
None == <<>>
Some(x) == <<x>>
IsNone(o) == o = <<>>
Value(o) == o[1]

(***************************************************************************)
(* Inputs: text lines, pages, uploaded files                               *)
(***************************************************************************)
Digits == <<"0","1","2","3","4","5","6","7","8","9">>
Body(n) == <<"p", Digits[n + 1]>>

LineData   == <<" ","D","A","T","A"," ">>
LineMethod == <<"M","e","t","h","o","d">>
LineAbc    == <<"A","B","C">>
LineNext   == <<"N","E","X","T"," ","1">>

\* A page's page_content is the sequence of its lines.
Page0 == <<LineNext, Body(0)>>
Page1 == <<LineData, Body(1)>>
Page2 == <<Body(2)>>
Page3 == <<LineMethod, Body(3)>>
Page4 == <<Body(4)>>
Page5 == <<Body(5)>>
Page6 == <<LineData, Body(6)>>
Page7 == <<Body(7)>>
Page8 == <<LineAbc, Body(8)>>
Page9 == <<Body(9)>>

PagesA  == <<Page1, Page2, Page3, Page4, Page5, Page6>>
PagesB  == <<Page2, Page7, Page8, Page9>>
PagesA2 == <<Page0, Page6>>

NameA   == <<"a",".","p","d","f">>
NameB   == <<"B",".","P","D","F">>
NameC   == <<"c",".","p","d","f">>
NameTxt == <<"n",".","t","x","t">>

\* An uploaded file: its name, what the page loader makes of its bytes
\* ("raise" or the pages) and whether the embedding / index build succeeds.
Upload(name, load, pages, embed) ==
    [filename |-> name, load |-> load, pages |-> pages, embed |-> embed]

UpA       == Upload(NameA, "ok", PagesA, "ok")
UpB       == Upload(NameB, "ok", PagesB, "ok")
UpA2      == Upload(NameA, "ok", PagesA2, "ok")
UpCorrupt == Upload(NameC, "raise", <<>>, "ok")
UpBlank   == Upload(NameC, "ok", <<>>, "ok")
UpNoEmbed == Upload(NameB, "ok", PagesB, "raise")
UpTxt     == Upload(NameTxt, "ok", PagesA, "ok")

\* The batches a request may carry: those of the list below that hold at
\* most MaxBatch files.
MaxBatch == 3

BatchList ==
    { <<>>,
      <<UpA>>, <<UpB>>,
      <<UpA, UpA2>>, <<UpTxt, UpBlank>>, <<UpNoEmbed, UpA2>>,
      <<UpA, UpCorrupt, UpB>>,
      <<UpA2, UpTxt, UpNoEmbed, UpA>>,
      <<UpB, UpA2, UpBlank, UpA, UpB>> }

Batches == {batch \in BatchList : Len(batch) <= MaxBatch}

(***************************************************************************)
(* PDFAnalyzer                                                             *)
(***************************************************************************)
RECURSIVE Flatten(_)
Flatten(ss) == IF ss = <<>> THEN <<>> ELSE Head(ss) \o Flatten(Tail(ss))

MinHeadingLen == 3
MaxHeadingLen == 100

\* extract_headings over the lines of "\n".join(page_content ...)
extract_headings(lines) ==
    { Strip(lines[i]) : i \in
        { j \in DOMAIN lines :
            LET trimmed_line == Strip(lines[j])
            IN  /\ MinHeadingLen < Len(trimmed_line)
                /\ Len(trimmed_line) < MaxHeadingLen
                /\ (IsUpperStr(trimmed_line) \/ IsTitleStr(trimmed_line)) } }

\* split_documents: every page here is shorter than chunk_size, so each page
\* is one chunk carrying the page's metadata (source, 0-based page).
split_documents(pages, filename) ==
    [i \in DOMAIN pages |->
        [page_content |-> pages[i], source |-> filename, page |-> i - 1]]

\* process_pdf: None on any failure, else the vector store and the headings
process_pdf(file) ==
    IF file.load = "raise" THEN None
    ELSE IF file.pages = <<>> THEN None
    ELSE IF file.embed = "raise" THEN None
    ELSE Some([vector_store |-> split_documents(file.pages, file.filename),
               headings |-> extract_headings(Flatten(file.pages))])

(***************************************************************************)
(* pdf_data_stores: a dict, kept as the sequence of its items in insertion *)
(* order                                                                   *)
(***************************************************************************)
Keys(d) == {d[i].filename : i \in DOMAIN d}
HasKey(d, k) == \E i \in DOMAIN d : d[i].filename = k
Get(d, k) == d[CHOOSE i \in DOMAIN d : d[i].filename = k]

\* d.setdefault(k, v): an existing key keeps its old value
DictSet_setdefault(d, k, v) ==
    IF HasKey(d, k) THEN d
    ELSE Append(d, [filename |-> k, vector_store |-> v.vector_store,
                    headings |-> v.headings])

\* d[k] = v: a new key goes last, an existing key keeps its place
DictSet(d, k, v) ==
    LET item == [filename |-> k, vector_store |-> v.vector_store,
                 headings |-> v.headings]
    IN  IF HasKey(d, k)
        THEN [i \in DOMAIN d |-> IF d[i].filename = k THEN item ELSE d[i]]
        ELSE Append(d, item)

(***************************************************************************)
(* The external retriever and language model                               *)
(***************************************************************************)
SearchK == 5
TopN == 7
Threshold == 40
ScoreMin == 0
ScoreMax == 100

Take(s, n) == SubSeq(s, 1, IF Len(s) < n THEN Len(s) ELSE n)

\* What a lookup may do: return the k nearest chunks of the store it was
\* built on, return nothing, or raise.
LookupOutcomes == {"topk", "nothing", "raise"}

get_relevant_documents(vector_store, outcome) ==
    IF outcome = "topk" THEN Take(vector_store, SearchK) ELSE <<>>

TitleResults   == <<"D","a","t","a">>
TitleMethods   == <<"A","i","m","s">>
TitleSummaryP  == <<" ","S","u","m","m","a","r","y"," ">>
TitleAbstractU == <<"A","B","S","T","R","A","C","T">>
TitleSumNotes  == <<"S","u","m","m","a","r","y"," ","2">>

Json(title, text, score) ==
    [kind |-> "json",
     dict |-> [section_title |-> title, refined_text |-> text,
               relevance_score |-> score]]

\* What the chain may answer for a chunk: raise, return text that is no
\* JSON, or return a JSON object (possibly without a field, with a score
\* out of range, or with fields the caller sets itself).
Responses(chunk) ==
    LET t == chunk.page_content
    IN  CASE t = Page0 -> { [kind |-> "exception"], [kind |-> "malformed"],
                            [kind |-> "json",
                             dict |-> [section_title |-> TitleResults,
                                       refined_text |-> "r0"]],
                            Json(TitleResults, "r0", 110),
                            Json(TitleResults, "r0", 0 - 10),
                            Json(TitleAbstractU, "r0", 99),
                            Json(TitleResults, "r0", 40),
                            Json(TitleResults, "r0", 80) }
          [] t = Page1 -> { Json(TitleResults, "r1", 90) }
          [] t = Page2 -> { Json(TitleMethods, "r2", 90) }
          [] t = Page3 -> { Json(TitleSumNotes, "r3", 41) }
          [] t = Page4 -> { Json(TitleResults, "r4", 100) }
          [] t = Page5 -> { Json(TitleResults, "r5", 70) }
          [] t = Page6 -> { Json(TitleSummaryP, "r6", 95) }
          [] t = Page7 -> { Json(TitleMethods, "r7", 70) }
          [] t = Page8 -> { [kind |-> "json",
                             dict |-> [section_title |-> TitleResults,
                                       refined_text |-> "r8",
                                       relevance_score |-> 55,
                                       document |-> NameC,
                                       page_number |-> 99]] }
          [] t = Page9 -> { Json(TitleResults, "r9", 70) }
          [] OTHER -> { [kind |-> "exception"] }

\* ProcessedChunk(**result_dict): the three fields of the answer must be
\* there and the score must lie in [0.0, 1.0]
Validates(result_dict) ==
    /\ {"section_title", "refined_text", "relevance_score"}
          \subseteq DOMAIN result_dict
    /\ ScoreMin <= result_dict.relevance_score
    /\ result_dict.relevance_score <= ScoreMax

\* process_chunk building its result without the bounds of relevance_score
process_chunk_unbounded(chunk, raw) ==
    IF raw.kind # "json" THEN None
    ELSE IF ~({"section_title", "refined_text", "relevance_score"}
                 \subseteq DOMAIN raw.dict) THEN None
    ELSE Some([section_title |-> raw.dict.section_title,
               refined_text |-> raw.dict.refined_text,
               relevance_score |-> raw.dict.relevance_score,
               document |-> chunk.source,
               page_number |-> chunk.page + 1])

\* process_chunk: the answer with document and page_number set from the
\* chunk's metadata, or None on any exception
process_chunk(chunk, raw) ==
    IF raw.kind # "json" THEN None
    ELSE LET result_dict ==
                 [f \in DOMAIN raw.dict \cup {"document", "page_number"} |->
                     IF f = "document" THEN chunk.source
                     ELSE IF f = "page_number" THEN chunk.page + 1
                     ELSE raw.dict[f]]
         IN  IF Validates(result_dict)
             THEN Some([section_title |-> result_dict.section_title,
                        refined_text |-> result_dict.refined_text,
                        relevance_score |-> result_dict.relevance_score,
                        document |-> result_dict.document,
                        page_number |-> result_dict.page_number])
             ELSE None

(***************************************************************************)
(* chat_with_pdfs: the pure steps                                          *)
(***************************************************************************)
\* The merged list handed on as it is
unique_docs_all(all_relevant_docs) == all_relevant_docs

\* {doc.page_content: doc for doc in all_relevant_docs}.values(): one entry
\* per text, at the place of the text's first occurrence, holding its last
\* occurrence
unique_docs(all_relevant_docs) ==
    LET n == Len(all_relevant_docs)
        firsts == { i \in 1..n : \A j \in 1..(i - 1) :
                       all_relevant_docs[j].page_content
                          # all_relevant_docs[i].page_content }
        last(i) == CHOOSE j \in 1..n :
                      /\ all_relevant_docs[j].page_content
                            = all_relevant_docs[i].page_content
                      /\ \A l \in (j + 1)..n :
                            all_relevant_docs[l].page_content
                               # all_relevant_docs[i].page_content
        nth(m) == CHOOSE i \in firsts :
                      Cardinality({j \in firsts : j < i}) = m - 1
    IN  [m \in 1..Cardinality(firsts) |-> all_relevant_docs[last(nth(m))]]

PassesFilter_inclusive(res) ==
    /\ Strip(Lower(res.section_title)) \notin STOP_TITLES
    /\ res.relevance_score >= Threshold

\* The filter of the list comprehension over valid_results
PassesFilter(res) ==
    /\ Strip(Lower(res.section_title)) \notin STOP_TITLES
    /\ res.relevance_score > Threshold

\* The members of a set of indices as a sequence in ascending order: the
\* order a list comprehension keeps
Ascending(S) ==
    [m \in 1..Cardinality(S) |->
        CHOOSE i \in S : Cardinality({j \in S : j < i}) = m - 1]

\* An ascending sort read backwards: equal keys come out in reverse order.
SortedDesc_reversed(s, key) ==
    LET place(i) ==
            1 + Cardinality({j \in DOMAIN s : key[s[j]] > key[s[i]]})
              + Cardinality({j \in (i + 1)..Len(s) : key[s[j]] = key[s[i]]})
    IN  [p \in DOMAIN s |-> s[CHOOSE i \in DOMAIN s : place(i) = p]]

\* sorted(s, key=..., reverse=True): a stable sort, so the place of s[i] is
\* one more than the number of elements with a greater key plus the number
\* of elements with the same key that stand before it in s.  key maps an
\* element to its sort key.
SortedDesc(s, key) ==
    LET place(i) ==
            1 + Cardinality({j \in DOMAIN s : key[s[j]] > key[s[i]]})
              + Cardinality({j \in 1..(i - 1) : key[s[j]] = key[s[i]]})
    IN  [p \in DOMAIN s |-> s[CHOOSE i \in DOMAIN s : place(i) = p]]

\* The first list built from all of sorted_results instead of its first 7
ExtractedSections_untruncated(sorted, processed_results) ==
    [rank \in DOMAIN sorted |->
        LET result == Value(processed_results[sorted[rank]])
        IN  [document |-> result.document,
             section_title |-> result.section_title,
             importance_rank |-> rank,
             page_number |-> result.page_number]]

\* The two parallel lists built by the loop over sorted_results[:7];
\* sorted holds indices into processed_results
ExtractedSections(sorted, processed_results) ==
    LET top == Take(sorted, TopN)
    IN  [rank \in DOMAIN top |->
            LET result == Value(processed_results[top[rank]])
            IN  [document |-> result.document,
                 section_title |-> result.section_title,
                 importance_rank |-> rank,
                 page_number |-> result.page_number]]

SubsectionAnalysis(sorted, processed_results) ==
    LET top == Take(sorted, TopN)
    IN  [rank \in DOMAIN top |->
            LET result == Value(processed_results[top[rank]])
            IN  [document |-> result.document,
                 refined_text |-> result.refined_text,
                 page_number |-> result.page_number]]

\* Steps 3 and 4 of chat_with_pdfs, up to the sort
FilterAndSort(processed_results) ==
    LET valid_results == {i \in DOMAIN processed_results :
                             ~IsNone(processed_results[i])}
        filtered_results ==
            Ascending({i \in valid_results :
                          PassesFilter(Value(processed_results[i]))})
        key == [i \in DOMAIN processed_results |->
                   IF i \in valid_results
                   THEN Value(processed_results[i]).relevance_score
                   ELSE ScoreMin]
    IN  SortedDesc(filtered_results, key)

HttpError(code, detail) == [status_code |-> code, detail |-> detail]
NoResponse == [status_code |-> 0]

NothingIngested ==
    HttpError(400, "No PDFs analyzed. Upload documents via /analyze-pdfs/ first.")
NoCandidates ==
    HttpError(404, "Could not find any relevant information for your query.")
NoneRelevant ==
    HttpError(404, "Found some initial matches, but none were relevant enough after filtering.")
\* An exception no handler catches leaves the endpoint as a server error.
Unhandled == HttpError(500, "Internal Server Error")

\* The end of chat_with_pdfs without the check for an empty sorted list
ChatResult_unchecked(sorted, processed_results) ==
    [status_code |-> 200,
     extracted_sections |-> ExtractedSections(sorted, processed_results),
     subsection_analysis |-> SubsectionAnalysis(sorted, processed_results)]

\* The end of chat_with_pdfs, from the sorted list on
ChatResult(sorted, processed_results) ==
    IF sorted = <<>> THEN NoneRelevant
    ELSE [status_code |-> 200,
          extracted_sections |-> ExtractedSections(sorted, processed_results),
          subsection_analysis |-> SubsectionAnalysis(sorted, processed_results)]

(***************************************************************************)
(* State                                                                   *)
(***************************************************************************)
VARIABLES
    pdf_data_stores,     \* the registry, items in insertion order
    ingest_pc,           \* "idle", "loop" or "done"
    files,               \* the batch of the running /analyze-pdfs/ request
    file_idx,            \* the file the loop is at
    processed_files,     \* the success list built so far
    analysis_response,   \* what /analyze-pdfs/ answered
    chat_pc,             \* "idle", "retrieving", "scoring" or "done"
    retrieval_tasks,     \* one lookup per registry item, in submission order
    processing_tasks,    \* one process_chunk call per pooled chunk
    sorted_results,      \* indices into processing_tasks, in sorted order
    chat_response        \* what /chat/ answered

vars == <<pdf_data_stores, ingest_pc, files, file_idx, processed_files,
          analysis_response, chat_pc, retrieval_tasks, processing_tasks,
          sorted_results, chat_response>>

ingest_vars == <<ingest_pc, files, file_idx, processed_files, analysis_response>>
chat_vars == <<chat_pc, retrieval_tasks, processing_tasks, sorted_results,
               chat_response>>

(***************************************************************************)
(* analyze_pdfs_endpoint: the pure steps                                   *)
(***************************************************************************)
\* file.filename.lower().endswith('.pdf')
IsPdfName(filename) == EndsWith(Lower(filename), PdfSuffix)

PDFAnalysisResult(filename, processed_data) ==
    [filename |-> filename,
     status |-> "Successfully processed and indexed.",
     extracted_headings_count |-> Cardinality(processed_data.headings)]

NoFiles == HttpError(400, "No PDF files provided.")
NoneProcessed ==
    HttpError(500, "Could not process any of the provided PDF files.")

\* The answer of a handler that fails as soon as one file was left out;
\* files is the batch of the request
AnalysisResponse_strict(results) ==
    IF results = <<>> \/ Len(results) < Len(files) THEN NoneProcessed
    ELSE [status_code |-> 200,
          total_documents_processed |-> Len(results),
          results |-> results]

AnalysisResponse(results) ==
    IF results = <<>> THEN NoneProcessed
    ELSE [status_code |-> 200,
          total_documents_processed |-> Len(results),
          results |-> results]

Init ==
    /\ pdf_data_stores = <<>>
    /\ ingest_pc = "idle"
    /\ files = <<>>
    /\ file_idx = 1
    /\ processed_files = <<>>
    /\ analysis_response = NoResponse
    /\ chat_pc = "idle"
    /\ retrieval_tasks = <<>>
    /\ processing_tasks = <<>>
    /\ sorted_results = <<>>
    /\ chat_response = NoResponse

(***************************************************************************)
(* /analyze-pdfs/                                                          *)
(***************************************************************************)
\* A request arrives with its batch; an empty batch is refused at once.
AnalyzeStart ==
    /\ ingest_pc \in {"idle", "done"}
    /\ \E batch \in Batches :
          /\ files' = batch
          /\ file_idx' = 1
          /\ processed_files' = <<>>
          /\ IF batch = <<>>
             THEN /\ analysis_response' = NoFiles
                  /\ ingest_pc' = "done"
             ELSE /\ analysis_response' = NoResponse
                  /\ ingest_pc' = "loop"
    /\ UNCHANGED <<pdf_data_stores, chat_vars>>

\* One turn of the loop over files: skip a file that is no PDF, else await
\* process_pdf and store a result that is not None.  After the last file the
\* handler answers.
AnalyzeFile ==
    /\ ingest_pc = "loop"
    /\ \E file \in {files[file_idx]} :
       \E processed_data \in {IF IsPdfName(file.filename)
                              THEN process_pdf(file) ELSE None} :
       \E results \in {IF IsNone(processed_data) THEN processed_files
                       ELSE Append(processed_files,
                                PDFAnalysisResult(file.filename,
                                                  Value(processed_data)))} :
          /\ pdf_data_stores' =
                IF IsNone(processed_data) THEN pdf_data_stores
                ELSE DictSet(pdf_data_stores, file.filename,
                             Value(processed_data))
          /\ processed_files' = results
          /\ file_idx' = file_idx + 1
          /\ IF file_idx = Len(files)
             THEN /\ analysis_response' = AnalysisResponse(results)
                  /\ ingest_pc' = "done"
             ELSE UNCHANGED <<analysis_response, ingest_pc>>
    /\ UNCHANGED <<files, chat_vars>>

(***************************************************************************)
(* /chat/                                                                  *)
(***************************************************************************)
AllDone(tasks) == \A i \in DOMAIN tasks : tasks[i].status = "done"

\* Lines 198-207: refuse when the registry is empty, else build one
\* retriever per registry item and submit its lookup.  A task keeps the
\* (filename, data) pair of line 203 it was built from: the name, the
\* headings and the vector store of that item as they were then.
ChatStart ==
    /\ chat_pc \in {"idle", "done"}
    /\ processing_tasks' = <<>>
    /\ sorted_results' = <<>>
    /\ IF pdf_data_stores = <<>>
       THEN /\ chat_response' = NothingIngested
            /\ retrieval_tasks' = <<>>
            /\ chat_pc' = "done"
       ELSE /\ chat_response' = NoResponse
            /\ retrieval_tasks' =
                  [i \in DOMAIN pdf_data_stores |->
                      [filename |-> pdf_data_stores[i].filename,
                       headings |-> pdf_data_stores[i].headings,
                       vector_store |-> pdf_data_stores[i].vector_store,
                       status |-> "pending", docs |-> <<>>]]
            /\ chat_pc' = "retrieving"
    /\ UNCHANGED <<pdf_data_stores, ingest_vars>>

\* One lookup ends and leaves its list in place of the retriever it ran on.
\* gather() is called without return_exceptions, so the first lookup that
\* raises ends the request.
LookupDone ==
    /\ chat_pc = "retrieving"
    /\ \E i \in DOMAIN retrieval_tasks, outcome \in LookupOutcomes :
          /\ retrieval_tasks[i].status = "pending"
          /\ IF outcome = "raise"
             THEN /\ chat_response' = Unhandled
                  /\ chat_pc' = "done"
                  /\ retrieval_tasks' =
                        [retrieval_tasks EXCEPT ![i].status = "raised"]
             ELSE /\ retrieval_tasks' =
                        [retrieval_tasks EXCEPT
                            ![i].status = "done",
                            ![i].vector_store = <<>>,
                            ![i].docs = get_relevant_documents(
                                           retrieval_tasks[i].vector_store,
                                           outcome)]
                  /\ UNCHANGED <<chat_response, chat_pc>>
    /\ UNCHANGED <<pdf_data_stores, ingest_vars, processing_tasks,
                   sorted_results>>

\* Lines 208-221, run when gather() hands back every lookup's list: merge,
\* refuse an empty pool, deduplicate, and submit one process_chunk call per
\* chunk whose source is in the registry, with that item's headings.
ChatMerge ==
    /\ chat_pc = "retrieving"
    /\ AllDone(retrieval_tasks)
    /\ LET all_relevant_docs ==
               Flatten([i \in DOMAIN retrieval_tasks |-> retrieval_tasks[i].docs])
           pool == unique_docs(all_relevant_docs)
           known == Ascending({i \in DOMAIN pool :
                                  HasKey(pdf_data_stores, pool[i].source)})
       IN  IF all_relevant_docs = <<>>
           THEN /\ chat_response' = NoCandidates
                /\ chat_pc' = "done"
                /\ UNCHANGED processing_tasks
           ELSE /\ processing_tasks' =
                      [m \in DOMAIN known |->
                          [doc |-> pool[known[m]],
                           headings |-> Get(pdf_data_stores,
                                            pool[known[m]].source).headings,
                           status |-> "pending",
                           raw |-> None,
                           result |-> None]]
                /\ chat_pc' = "scoring"
                /\ UNCHANGED chat_response
    /\ UNCHANGED <<pdf_data_stores, ingest_vars, retrieval_tasks, sorted_results>>

\* One process_chunk call ends, with whatever the chain answered.
ScoreDone ==
    /\ chat_pc = "scoring"
    /\ \E i \in DOMAIN processing_tasks :
          /\ processing_tasks[i].status = "pending"
          /\ \E raw \in Responses(processing_tasks[i].doc) :
                processing_tasks' =
                    [processing_tasks EXCEPT
                        ![i].status = "done",
                        ![i].raw = Some(raw),
                        ![i].result = process_chunk(processing_tasks[i].doc, raw)]
    /\ UNCHANGED <<pdf_data_stores, ingest_vars, chat_pc, retrieval_tasks,
                   sorted_results, chat_response>>

\* Lines 225-258, run when gather() hands back every process_chunk result.
ChatRank ==
    /\ chat_pc = "scoring"
    /\ AllDone(processing_tasks)
    /\ LET processed_results ==
               [i \in DOMAIN processing_tasks |-> processing_tasks[i].result]
           sorted == FilterAndSort(processed_results)
       IN  /\ sorted_results' = sorted
           /\ chat_response' = ChatResult(sorted, processed_results)
    /\ chat_pc' = "done"
    /\ UNCHANGED <<pdf_data_stores, ingest_vars, retrieval_tasks,
                   processing_tasks>>

Next ==
    \/ AnalyzeStart
    \/ AnalyzeFile
    \/ ChatStart
    \/ LookupDone
    \/ ChatMerge
    \/ ScoreDone
    \/ ChatRank

Spec == Init /\ [][Next]_vars

(***************************************************************************)
(* Vocabulary of the properties                                            *)
(***************************************************************************)
ChatDone == chat_pc = "done"
ChatSucceeded == ChatDone /\ chat_response.status_code = 200
ChatFailed == ChatDone /\ chat_response.status_code # 200

\* The scored chunk behind the entry at position r of the sorted list
Scored(r) == Value(processing_tasks[sorted_results[r]].result)
Chunk(r) == processing_tasks[sorted_results[r]].doc

\* Number of results a response may hold at most
Returned == 1..(IF Len(sorted_results) < TopN THEN Len(sorted_results) ELSE TopN)

NormalTitle(title) == Strip(Lower(title))

\* The tasks whose chunk was scored, is no stoplist title and scores above
\* the threshold
Survivors ==
    { i \in DOMAIN processing_tasks :
        /\ ~IsNone(processing_tasks[i].result)
        /\ NormalTitle(Value(processing_tasks[i].result).section_title)
              \notin STOP_TITLES
        /\ Value(processing_tasks[i].result).relevance_score > Threshold }

(***************************************************************************)
(* C1: in every successful response each result's section title,           *)
(* lower-cased and trimmed, is outside the stoplist and its relevance      *)
(* score is strictly above 0.4; a chunk scored exactly 0.4 is not          *)
(* returned.                                                               *)
(***************************************************************************)
C1_ReturnedPassFilter ==
    ChatSucceeded =>
        /\ Len(chat_response.extracted_sections) >= 1
        /\ \A r \in DOMAIN chat_response.extracted_sections :
              /\ NormalTitle(chat_response.extracted_sections[r].section_title)
                    \notin STOP_TITLES
              /\ chat_response.extracted_sections[r].section_title
                    = Scored(r).section_title
              /\ Scored(r).relevance_score > Threshold
        /\ \A i \in DOMAIN processing_tasks :
              (/\ ~IsNone(processing_tasks[i].result)
               /\ Value(processing_tasks[i].result).relevance_score = Threshold)
              => \A r \in DOMAIN chat_response.extracted_sections :
                    sorted_results[r] # i

\* A response was returned although one chunk scored exactly 0.4 and
\* another one, scored above it, came with a stoplist title.
C1_Witness ==
    /\ ChatSucceeded
    /\ \E i \in DOMAIN processing_tasks :
          /\ ~IsNone(processing_tasks[i].result)
          /\ Value(processing_tasks[i].result).relevance_score = Threshold
    /\ \E i \in DOMAIN processing_tasks :
          /\ ~IsNone(processing_tasks[i].result)
          /\ Value(processing_tasks[i].result).relevance_score > Threshold
          /\ NormalTitle(Value(processing_tasks[i].result).section_title)
                \in STOP_TITLES
          /\ Value(processing_tasks[i].result).section_title \notin STOP_TITLES

(***************************************************************************)
(* C2: in every successful response the two lists have the same length L,  *)
(* 1 <= L <= 7, their i-th entries come from the same scored chunk (same   *)
(* document and page), and the importance ranks of the sections list are   *)
(* 1, 2, ..., L in list order.                                             *)
(***************************************************************************)
C2_AlignedDenseRanks ==
    ChatSucceeded =>
        LET sections == chat_response.extracted_sections
            analyses == chat_response.subsection_analysis
        IN  /\ Len(sections) = Len(analyses)
            /\ 1 <= Len(sections)
            /\ Len(sections) <= TopN
            /\ Len(sections) <= Len(sorted_results)
            /\ \A i \in DOMAIN sections :
                  /\ sections[i].importance_rank = i
                  /\ sections[i].document = Chunk(i).source
                  /\ analyses[i].document = Chunk(i).source
                  /\ sections[i].page_number = Chunk(i).page + 1
                  /\ analyses[i].page_number = Chunk(i).page + 1
                  /\ sections[i].section_title = Scored(i).section_title
                  /\ analyses[i].refined_text = Scored(i).refined_text

\* A response of exactly 7 results cut from more than 7 survivors.
C2_Witness ==
    /\ ChatSucceeded
    /\ Len(sorted_results) > TopN
    /\ Len(chat_response.extracted_sections) = TopN

(***************************************************************************)
(* C3: the returned list is the first 7 entries of the stable descending   *)
(* sort of the filter survivors: scores never increase along the list,     *)
(* equal scores keep the order in which the chunks stood before the sort,  *)
(* and no survivor left out scores strictly higher than a returned one.    *)
(***************************************************************************)
C3_StableTopSeven ==
    ChatSucceeded =>
        LET score(i) == Value(processing_tasks[i].result).relevance_score
            n == Len(sorted_results)
            returned == {sorted_results[r] : r \in Returned}
        IN  /\ {sorted_results[r] : r \in 1..n} = Survivors
            /\ n = Cardinality(Survivors)
            /\ Len(chat_response.extracted_sections) = Cardinality(Returned)
            /\ \A a, b \in 1..n :
                  a < b =>
                     /\ score(sorted_results[a]) >= score(sorted_results[b])
                     /\ score(sorted_results[a]) = score(sorted_results[b])
                           => sorted_results[a] < sorted_results[b]
            /\ \A r \in Returned :
                  /\ chat_response.extracted_sections[r].document
                        = Chunk(r).source
                  /\ chat_response.extracted_sections[r].page_number
                        = Chunk(r).page + 1
                  /\ chat_response.subsection_analysis[r].refined_text
                        = Scored(r).refined_text
            /\ \A i \in Survivors \ returned :
                  \A j \in returned : score(i) <= score(j)

\* More than 7 survivors, two returned results with the same score, and a
\* sort that moved a chunk in front of one that stood before it.
C3_Witness ==
    /\ ChatSucceeded
    /\ Len(sorted_results) > TopN
    /\ \E a, b \in Returned :
          /\ a < b
          /\ Scored(a).relevance_score = Scored(b).relevance_score
    /\ \E a, b \in Returned :
          /\ a < b
          /\ sorted_results[a] > sorted_results[b]

(***************************************************************************)
(* C4: a failing Query ends in exactly one of the conditions "nothing      *)
(* ingested", "no candidates retrieved", "candidates found but none passed *)
(* filtering", and each condition has a failure code different from the    *)
(* other two, so that the code alone tells them apart.  Stated for the     *)
(* queries none of whose lookups raised; a raising lookup ends the Query   *)
(* in a fourth way (see C10).                                              *)
(***************************************************************************)
NothingIngestedHolds == retrieval_tasks = <<>>
NoCandidatesHolds ==
    /\ retrieval_tasks # <<>>
    /\ \A i \in DOMAIN retrieval_tasks :
          retrieval_tasks[i].status = "done" /\ retrieval_tasks[i].docs = <<>>
NoneRelevantHolds == processing_tasks # <<>> /\ Survivors = {}

FailureConditions == {"nothing ingested", "no candidates", "none relevant"}

ConditionHolds(c) ==
    CASE c = "nothing ingested" -> NothingIngestedHolds
      [] c = "no candidates" -> NoCandidatesHolds
      [] c = "none relevant" -> NoneRelevantHolds

FailureCode(c) ==
    CASE c = "nothing ingested" -> NothingIngested.status_code
      [] c = "no candidates" -> NoCandidates.status_code
      [] c = "none relevant" -> NoneRelevant.status_code

LookupRaised ==
    \E i \in DOMAIN retrieval_tasks : retrieval_tasks[i].status = "raised"

\* C4: a failed Query whose lookups all returned is in exactly one of the
\* three conditions, and its code is the code of no other condition.
C4_DistinctFailureCodes ==
    (ChatFailed /\ ~LookupRaised) =>
        \E c \in FailureConditions :
            /\ ConditionHolds(c)
            /\ chat_response.status_code = FailureCode(c)
            /\ \A d \in FailureConditions \ {c} :
                  /\ ~ConditionHolds(d)
                  /\ FailureCode(d) # chat_response.status_code

(***************************************************************************)
(* C5: a Query issued while the registry is empty fails with "nothing      *)
(* ingested" before any lookup or scoring call is made, and no Query       *)
(* succeeds with empty result lists: whenever no chunk survives, the Query *)
(* ends in a failure.                                                      *)
(***************************************************************************)
C5_NoEmptySuccess ==
    /\ ChatSucceeded =>
          /\ Len(chat_response.extracted_sections) >= 1
          /\ Len(chat_response.subsection_analysis) >= 1
    /\ (ChatDone /\ Survivors = {}) =>
          chat_response \in {NothingIngested, NoCandidates, NoneRelevant, Unhandled}
    /\ (ChatDone /\ chat_response = NothingIngested) =>
          retrieval_tasks = <<>> /\ processing_tasks = <<>>

\* A step that starts a Query on an empty registry
C5_EmptyStart ==
    (/\ chat_pc \in {"idle", "done"}
     /\ chat_vars' # chat_vars
     /\ pdf_data_stores = <<>>)
    => /\ chat_pc' = "done"
       /\ chat_response' = NothingIngested
       /\ retrieval_tasks' = <<>>
       /\ processing_tasks' = <<>>

\* C5: no success without a result, no lookup or scoring call behind a
\* "nothing ingested" failure, and every Query started on an empty registry
\* ends at once in that failure.
C5_EmptyRegistryFails == []C5_NoEmptySuccess /\ [][C5_EmptyStart]_vars

\* A Query was refused for want of documents after an ingestion that
\* stored none.
C5_Witness ==
    /\ ChatDone
    /\ chat_response = NothingIngested
    /\ pdf_data_stores = <<>>
    /\ analysis_response = NoneProcessed

(***************************************************************************)
(* C6: the pool handed to the scorer holds exactly one entry for each      *)
(* distinct chunk text the lookups returned, also when two documents       *)
(* returned the same text; so each text is scored at most once and no two  *)
(* returned results stem from chunks with the same text.                   *)
(***************************************************************************)
RetrievedDocs ==
    UNION { { <<i, j>> : j \in DOMAIN retrieval_tasks[i].docs } :
              i \in DOMAIN retrieval_tasks }
TextOf(ij) == retrieval_tasks[ij[1]].docs[ij[2]].page_content

C6_OneEntryPerText ==
    (chat_pc \in {"scoring", "done"} /\ processing_tasks # <<>>) =>
        /\ \A ij \in RetrievedDocs :
              Cardinality({i \in DOMAIN processing_tasks :
                              processing_tasks[i].doc.page_content = TextOf(ij)}) = 1
        /\ \A i \in DOMAIN processing_tasks :
              \E ij \in RetrievedDocs :
                  processing_tasks[i].doc.page_content = TextOf(ij)
        /\ \A a, b \in Returned :
              a # b => Chunk(a).page_content # Chunk(b).page_content

\* A successful Query two of whose lookups returned the same text.
C6_Witness ==
    /\ ChatSucceeded
    /\ \E ij, kl \in RetrievedDocs :
          /\ ij[1] # kl[1]
          /\ TextOf(ij) = TextOf(kl)

(***************************************************************************)
(* C7: a scoring call that fails (exception, malformed answer, missing     *)
(* field, score out of range) turns only its own chunk into None: every    *)
(* chunk of the pool is scored, the Query does not fail because of the     *)
(* failure, and every other chunk that passes the filter is ranked.        *)
(***************************************************************************)
RawFails(raw) ==
    \/ raw.kind # "json"
    \/ /\ raw.kind = "json"
       /\ \/ "section_title" \notin DOMAIN raw.dict
          \/ "refined_text" \notin DOMAIN raw.dict
          \/ "relevance_score" \notin DOMAIN raw.dict
          \/ raw.dict.relevance_score < 0
          \/ raw.dict.relevance_score > 100

ScoredTask(i) == processing_tasks[i].status = "done"

C7_ScoringFailureIsolated ==
    /\ \A i \in DOMAIN processing_tasks :
          ScoredTask(i) =>
             LET raw == Value(processing_tasks[i].raw)
                 result == processing_tasks[i].result
             IN  /\ IsNone(result) <=> RawFails(raw)
                 /\ ~RawFails(raw) =>
                       /\ Value(result).section_title = raw.dict.section_title
                       /\ Value(result).relevance_score = raw.dict.relevance_score
                       /\ Value(result).document = processing_tasks[i].doc.source
    /\ (ChatDone /\ processing_tasks # <<>>) =>
          /\ \A i \in DOMAIN processing_tasks : ScoredTask(i)
          /\ \A i \in Survivors : \E r \in DOMAIN sorted_results : sorted_results[r] = i
          /\ Survivors # {} => ChatSucceeded
          /\ Survivors = {} => chat_response = NoneRelevant

\* A successful Query one of whose scoring calls failed.
C7_Witness ==
    /\ ChatSucceeded
    /\ Cardinality(DOMAIN processing_tasks) > 1
    /\ \E i \in DOMAIN processing_tasks :
          /\ RawFails(Value(processing_tasks[i].raw))
          /\ IsNone(processing_tasks[i].result)

(***************************************************************************)
(* C8: in a batch every document's outcome is independent: a document that *)
(* fails is left out of the success list and the loop goes on to the next  *)
(* one, every document that succeeds is in the success list and in the     *)
(* registry under its name, and the request fails if and only if no        *)
(* document of the batch succeeds.                                         *)
(***************************************************************************)
\* The file is a PDF by name, loads to at least one page and embeds.
Ingestible(file) ==
    /\ EndsWith(Lower(file.filename), PdfSuffix)
    /\ file.load = "ok"
    /\ file.pages # <<>>
    /\ file.embed = "ok"

\* The pages an index holds
IndexedPages(item) ==
    [i \in DOMAIN item.vector_store |-> item.vector_store[i].page_content]

C8_BatchIsolation ==
    ingest_pc \in {"loop", "done"} =>
        LET handled == 1..(file_idx - 1)
            ok == {i \in handled : Ingestible(files[i])}
            order == Ascending(ok)
        IN  /\ ingest_pc = "done" <=> file_idx = Len(files) + 1 \/ files = <<>>
            /\ Len(processed_files) = Cardinality(ok)
            /\ \A m \in DOMAIN processed_files :
                  processed_files[m].filename = files[order[m]].filename
            /\ \A i \in ok :
                  /\ HasKey(pdf_data_stores, files[i].filename)
                  /\ (\A j \in ok : j > i => files[j].filename # files[i].filename)
                        => IndexedPages(Get(pdf_data_stores, files[i].filename))
                              = files[i].pages
            /\ ingest_pc = "done" =>
                  /\ analysis_response.status_code # 200 <=> ok = {}
                  /\ ok # {} =>
                        /\ analysis_response.results = processed_files
                        /\ analysis_response.total_documents_processed
                              = Cardinality(ok)

\* A batch of three whose second document failed and whose other two are in
\* the success list.
C8_Witness ==
    /\ ingest_pc = "done"
    /\ Len(files) = 3
    /\ Ingestible(files[1]) /\ ~Ingestible(files[2]) /\ Ingestible(files[3])
    /\ analysis_response.status_code = 200
    /\ Len(analysis_response.results) = 2

(***************************************************************************)
(* C9: after the same name is ingested twice the registry holds exactly    *)
(* one entry for it, whose index and headings are both those of the second *)
(* ingestion; the entries of all other names are left as they were.        *)
(***************************************************************************)
C9_OneWholeEntry ==
    /\ \A i, j \in DOMAIN pdf_data_stores :
          pdf_data_stores[i].filename = pdf_data_stores[j].filename => i = j
    /\ \A i \in DOMAIN pdf_data_stores :
          /\ pdf_data_stores[i].headings
                = extract_headings(Flatten(IndexedPages(pdf_data_stores[i])))
          /\ \A c \in DOMAIN pdf_data_stores[i].vector_store :
                pdf_data_stores[i].vector_store[c].source
                   = pdf_data_stores[i].filename
    /\ (ingest_pc \in {"loop", "done"} /\ file_idx > 1
           /\ Ingestible(files[file_idx - 1])) =>
          IndexedPages(Get(pdf_data_stores, files[file_idx - 1].filename))
             = files[file_idx - 1].pages

\* A step changes no entry but the one of the file the loop is at, and
\* removes none.
C9_OthersUntouched ==
    \A i \in DOMAIN pdf_data_stores :
        /\ HasKey(pdf_data_stores', pdf_data_stores[i].filename)
        /\ \/ Get(pdf_data_stores', pdf_data_stores[i].filename) = pdf_data_stores[i]
           \/ /\ ingest_pc = "loop"
              /\ files[file_idx].filename = pdf_data_stores[i].filename

\* C9: every registry entry is the single, whole entry of the last
\* ingestion of its name, and a step changes no other entry.
C9_ReingestReplaces == []C9_OneWholeEntry /\ [][C9_OthersUntouched]_vars

\* A name was ingested twice in a row with different pages while the
\* registry held another name as well.
C9_Witness ==
    /\ ingest_pc = "done"
    /\ Len(files) = 2
    /\ files[1].filename = files[2].filename
    /\ Ingestible(files[1]) /\ Ingestible(files[2])
    /\ files[1].pages # files[2].pages
    /\ Len(pdf_data_stores) = 2

(***************************************************************************)
(* C10: a lookup that fails for one document does not fail the Query,      *)
(* which goes on with the chunks the other documents returned.             *)
(***************************************************************************)
\* C10: once a lookup raised while another one returned chunks, the Query
\* has not ended in the unhandled error.
C10_LookupFailureIsolated ==
    (/\ LookupRaised
     /\ \E j \in DOMAIN retrieval_tasks :
           /\ retrieval_tasks[j].status = "done"
           /\ retrieval_tasks[j].docs # <<>>)
    => ~(ChatDone /\ chat_response = Unhandled)

(***************************************************************************)
(* C11: within one Query, the headings passed to the scoring capability    *)
(* for a chunk are those of the registry item whose chunk index returned   *)
(* the chunk, also when the same name is ingested again while the Query    *)
(* waits for its lookups: no chunk of the old index is scored against the  *)
(* headings of the new one.                                                *)
(***************************************************************************)
\* C11: every scoring call carries the headings that the item had from
\* which the lookup returning its chunk was built.
C11_HeadingsOfSameIndex ==
    \A i \in DOMAIN processing_tasks :
        \A t \in DOMAIN retrieval_tasks :
            (/\ retrieval_tasks[t].filename = processing_tasks[i].doc.source
             /\ \E j \in DOMAIN retrieval_tasks[t].docs :
                   retrieval_tasks[t].docs[j] = processing_tasks[i].doc)
            => processing_tasks[i].headings = retrieval_tasks[t].headings

====
